---- MODULE Spec2Model ----
(***************************************************************************)
(* A3C training protocol of agents/a3c.py (A3CThread.run, A3C.learn), the  *)
(* trajectory collector A3CThread.get_trajectory and the return            *)
(* computation misc/utils.discount_rewards.                                *)
(*                                                                         *)
(* Spec      the coordinator and its n_threads workers, interleaved at the *)
(*           granularity of their accesses to shared state.                *)
(* SpecTraj  one iteration of one worker in detail: the environment loop,  *)
(*           the bootstrap of the last reward and the discounting.         *)
(* SpecDisc  discount_rewards on arbitrary bounded inputs.                 *)
(* SpecRun   the methods get_steps, get_trajectory and get_trajectories of *)
(*           agents/env_runner.EnvRunner.                                  *)
(* SpecGrad  the gradients A3CThread.__init__ hands to apply_gradients.    *)
(* SpecSoft  misc/utils.soft_update on arbitrary bounded inputs.           *)
(***************************************************************************)
EXTENDS Integers, Sequences, FiniteSets, TLC

(* ------------------------------ bounds -------------------------------- *)

\* config["T_max"] of the model runs (the default of the code is 8e5).
T_max == 2

\* config["episode_max_length"] of the model runs.
episode_max_length == 2

\* config["n_threads"], the default of the code.
n_threads == 2

Threads == 0 .. (n_threads - 1)

\* Two of the trainable variables (tensors) of the actor-critic network: the
\* least number that tells a whole snapshot of the network from a torn one.
VarIdx == {1, 2}

(* ------------------------------- state -------------------------------- *)

VARIABLES
    T,               \* A3C.T: shared counter of environment steps
    global_step,     \* A3C.global_step: tf variable, counts optimizer updates
    stop_requested,  \* A3C.stop_requested
    save_model,      \* config["save_model"]
    saved,           \* number of times saver.save ran
    shared_vars,     \* master.shared_ac_net.vars: VarIdx -> value (see ParamValue)
    local_vars,      \* per thread: ac_net.vars
    pc,              \* per thread: position in A3CThread.run
    trajectory,      \* per thread: trajectory["steps"] of the current trajectory, 0 if none
    pending,         \* per thread: variables the running train_op has not updated yet
    T_read,          \* per thread: value of master.T loaded by the += of line 324
    learn_pc,        \* position of the coordinator in A3C.learn
    job_i,           \* index of the loop of learn() over self.jobs
    \* history variables (not program state)
    started,         \* per thread: iterations whose loop guard evaluated to true
    completed,       \* per thread: iterations that executed line 324
    steps_sum,       \* sum of trajectory["steps"] over the completed iterations
    started_at_stop  \* `started` at the moment the signal handler ran

VARIABLES
    cap,             \* argument episode_max_length of get_trajectory
    gamma,           \* config["gamma"]
    ac_net_value,    \* the critic of the thread's local network: state -> value
    shared_value,    \* the critic of the shared network at the same moment
    traj_pc,         \* position in get_trajectory and lines 302-304 of run
    state,           \* local `state` of get_trajectory
    states,          \* list `states`, then trajectory["state"]
    actions,         \* list `actions`, then trajectory["action"]
    rewards,         \* list `rewards`, then trajectory["reward"]
    i,               \* loop variable of get_trajectory (Unbound before the loop)
    done,            \* local `done` of get_trajectory, then trajectory["done"]
    steps,           \* trajectory["steps"]
    reward_sum,      \* local `reward` of run (line 302)
    returns,         \* local `returns` of run (line 304)
    \* history variables (not program state)
    env_dones,       \* the done flags env.step reported, in order
    collected        \* the rewards as get_trajectory returned them

VARIABLES
    x,               \* argument x of discount_rewards
    gamma_x,         \* argument gamma of discount_rewards
    y,               \* result of discount_rewards
    y_pc             \* "call" before, "returned" after the call

VARIABLES
    env,             \* the environment and policy of an EnvRunner: the states,
                     \* actions and rewards they can produce
    config,          \* EnvRunner.config
    summary_writer,  \* EnvRunner.summary_writer is not None
    self_state,      \* EnvRunner.state
    episode_steps,   \* EnvRunner.episode_steps
    episode_reward,  \* EnvRunner.episode_reward
    n_episodes,      \* EnvRunner.n_episodes
    run_pc,          \* position in the running method of the EnvRunner
    entry,           \* the method the caller invoked last
    calls,           \* number of calls made so far
    caller_stop,     \* argument stop_at_trajectory_end of get_trajectory(-ies)
    caller_render,   \* argument render of get_trajectory(-ies)
    n_steps,         \* parameter n_steps of get_steps
    reset,           \* parameter reset of get_steps
    stop_at_trajectory_end, \* parameter stop_at_trajectory_end of get_steps
    render,          \* parameter render of get_steps
    memory,          \* local `memory` of get_steps: the records added so far
    passes,          \* passes of the loop of get_steps made so far
    trajectories,    \* local `trajectories` of get_trajectories
    timesteps_total, \* local `timesteps_total` of get_trajectories
    i_traj,          \* local `i` of get_trajectories
    \* history variables (not program state)
    h_steps,         \* environment steps since the last environment reset
    h_reward,        \* sum of the rewards of those steps
    h_episodes,      \* number of steps on which the environment reported done
    h_raw,           \* the rewards env.step returned during the current get_steps
    h_resets         \* the calls of reset_env the loop of the current get_steps made

VARIABLES
    clip_gradients,      \* argument clip_gradients of A3CThread.__init__
    gradient_clip_value, \* config["gradient_clip_value"]
    grads,               \* value of `grads` in a run of train_op: per variable
    processed_grads,     \* value of `processed_grads` in that run
    grad_pc              \* "grads" before, "applied" after apply_gradients got them

VARIABLES
    source_vars,     \* argument source_vars of soft_update: the values
    target_vars,     \* argument target_vars of soft_update: the values
    tau,             \* argument tau of soft_update
    soft_pc,         \* "call" before the call, then "returned" or "ValueError"
    \* history variables (not program state)
    source_before,   \* source_vars at the call
    target_before    \* target_vars at the call

VARIABLES
    variant,         \* the class constructed: A3CDiscrete, A3CDiscreteCNN or A3CContinuous
    cfg_n_threads,   \* config["n_threads"] of the construction
    cfg_save_model,  \* config["save_model"] of the construction
    master_attrs,    \* the network attributes set on the A3C object
    thread_attrs,    \* the network attributes set on the thread under construction
    jobs,            \* A3C.jobs: the thread ids of the threads made, in order
    thread_id,       \* loop variable of the loop of lines 415-417
    build_pc         \* position in A3C.__init__, or the exception it raised

VARIABLES
    network,         \* the class whose loss is evaluated
    probs,           \* per sample: the output of the softmax
    actions_taken,   \* per sample: the one-hot vector of the action taken
    advantages,      \* per sample: critic_rewards - critic_feedback
    logged,          \* per sample: the argument tf.log was given
    loss,            \* the actor loss, as a class of float values
    loss_pc          \* "feed" before, "evaluated" after the evaluation

VARIABLES
    apply_value,     \* one shared variable, as ParamValue
    apply_loaded,    \* per thread: the value its running update loaded
    apply_pc,        \* per thread: "idle", or "loaded" inside an update
    apply_done       \* per thread: updates of the variable that have completed

VARIABLES
    budget_T,        \* A3C.T in a run with one thread more than the default
    budget_pc,       \* per thread: position in A3CThread.run
    budget_loaded    \* per thread: value of master.T loaded by line 324

a3cVars == <<T, global_step, stop_requested, save_model, saved, shared_vars,
             local_vars, pc, trajectory, pending, T_read, learn_pc, job_i,
             started, completed, steps_sum, started_at_stop>>

trajVars == <<cap, gamma, ac_net_value, shared_value, traj_pc, state, states,
              actions, rewards, i, done, steps, reward_sum, returns, env_dones,
              collected>>

discVars == <<x, gamma_x, y, y_pc>>

runVars == <<env, config, summary_writer, self_state, episode_steps,
             episode_reward, n_episodes, run_pc, entry, calls, caller_stop,
             caller_render, n_steps, reset, stop_at_trajectory_end, render,
             memory, passes, trajectories, timesteps_total, i_traj,
             h_steps, h_reward, h_episodes, h_raw, h_resets>>

gradVars == <<clip_gradients, gradient_clip_value, grads, processed_grads, grad_pc>>

softVars == <<source_vars, target_vars, tau, soft_pc, source_before, target_before>>

buildVars == <<variant, cfg_n_threads, cfg_save_model, master_attrs,
               thread_attrs, jobs, thread_id, build_pc>>

lossVars == <<network, probs, actions_taken, advantages, logged, loss, loss_pc>>

applyVars == <<apply_value, apply_loaded, apply_pc, apply_done>>

budgetVars == <<budget_T, budget_pc, budget_loaded>>

vars == <<a3cVars, trajVars, discVars, runVars, gradVars, softVars,
          buildVars, lossVars, applyVars, budgetVars>>

\* What the actions of the training protocol leave alone.
OnlyA3C ==
    UNCHANGED <<trajVars, discVars, runVars, gradVars, softVars,
                buildVars, lossVars, applyVars, budgetVars>>

\* What the actions of one iteration in detail leave alone.
OnlyTraj ==
    UNCHANGED <<a3cVars, discVars, runVars, gradVars, softVars,
                buildVars, lossVars, applyVars, budgetVars>>

\* What the call of discount_rewards leaves alone.
OnlyDisc ==
    UNCHANGED <<a3cVars, trajVars, runVars, gradVars, softVars,
                buildVars, lossVars, applyVars, budgetVars>>

\* What the methods of the EnvRunner leave alone.
OnlyRun ==
    UNCHANGED <<a3cVars, trajVars, discVars, gradVars, softVars,
                buildVars, lossVars, applyVars, budgetVars>>

\* What the construction of train_op leaves alone.
OnlyGrad ==
    UNCHANGED <<a3cVars, trajVars, discVars, runVars, softVars,
                buildVars, lossVars, applyVars, budgetVars>>

\* The six groups of the specifications above.
firstVars == <<a3cVars, trajVars, discVars, runVars, gradVars, softVars>>

\* What the construction of the coordinator leaves alone.
OnlyBuild == UNCHANGED <<firstVars, lossVars, applyVars, budgetVars>>

\* What the evaluation of the loss leaves alone.
OnlyLoss == UNCHANGED <<firstVars, buildVars, applyVars, budgetVars>>

\* What an update of one shared variable leaves alone.
OnlyApply == UNCHANGED <<firstVars, buildVars, lossVars, budgetVars>>

\* What the run with one more thread leaves alone.
OnlyBudget == UNCHANGED <<firstVars, buildVars, lossVars, applyVars>>

\* What the call of soft_update leaves alone.
OnlySoft ==
    UNCHANGED <<a3cVars, trajVars, discVars, runVars, gradVars,
                buildVars, lossVars, applyVars, budgetVars>>

RECURSIVE SumOver(_, _)
\* Sum of f[x] for x in S.
SumOver(f, S) ==
    IF S = {} THEN 0
    ELSE LET e == CHOOSE c \in S : TRUE IN f[e] + SumOver(f, S \ {e})

\* The value of a trainable variable. The gradients are opaque numbers, so a
\* value is represented by the updates it contains: ParamValue[w] = n stands
\* for the initial value plus the first n updates thread w applied to the
\* variable. Two values with the same representation are equal bit for bit.
ParamValue == [Threads -> Nat]

\* tf.global_variables_initializer(): the initial value, holding no update.
InitialValue == [w \in Threads |-> 0]

InitialVars == [v \in VarIdx |-> InitialValue]

NoTrajectory == 0

(* --------------------------- A3C.__init__ ----------------------------- *)

InitA3C ==
    /\ T = 0
    /\ global_step = 0
    /\ stop_requested = FALSE
    /\ save_model \in BOOLEAN
    /\ saved = 0
    /\ shared_vars = InitialVars
    /\ local_vars = [w \in Threads |-> InitialVars]
    /\ pc = [w \in Threads |-> "NotStarted"]
    /\ trajectory = [w \in Threads |-> NoTrajectory]
    /\ pending = [w \in Threads |-> {}]
    /\ T_read = [w \in Threads |-> 0]
    /\ learn_pc = "signal"
    /\ job_i = 0
    /\ started = [w \in Threads |-> 0]
    /\ completed = [w \in Threads |-> 0]
    /\ steps_sum = 0
    /\ started_at_stop = [w \in Threads |-> 0]

(* --------------------------- A3CThread.run ---------------------------- *)

\* A guard that ends the loop one step before the target.
BudgetLeftBelow == T + 1 < T_max

\* self.master.T < self.config["T_max"]
BudgetLeft == T < T_max

\* First operand of the loop guard: self.master.T < self.config["T_max"].
GuardT(w) ==
    /\ pc[w] = "Idle"
    /\ pc' = [pc EXCEPT ![w] = IF BudgetLeft THEN "GuardStop" ELSE "Terminated"]
    /\ UNCHANGED <<T, global_step, stop_requested, save_model, saved, shared_vars,
                   local_vars, trajectory, pending, T_read, learn_pc, job_i,
                   started, completed, steps_sum, started_at_stop>>
    /\ OnlyA3C

\* A loop guard that never looks at the shutdown flag.
StopOperandIgnored == TRUE

\* not self.master.stop_requested
StopOperand == ~stop_requested

\* A loop that evaluates its guard again when it found the flag set.
GuardFalseRetries == "Idle"

\* Where run() goes when the guard of the while loop is false: the loop has
\* no else branch and nothing follows it, so run() returns.
GuardFalse == "Terminated"

\* Second operand of the loop guard, evaluated when the first was true: the
\* guard is true and an iteration starts, or the loop and run() end.
GuardStop(w) ==
    /\ pc[w] = "GuardStop"
    /\ pc' = [pc EXCEPT ![w] = IF StopOperand THEN "Syncing" ELSE GuardFalse]
    /\ started' = [started EXCEPT ![w] = IF StopOperand THEN @ + 1 ELSE @]
    /\ UNCHANGED <<T, global_step, stop_requested, save_model, saved, shared_vars,
                   local_vars, trajectory, pending, T_read, learn_pc, job_i,
                   completed, steps_sum, started_at_stop>>
    /\ OnlyA3C

\* A sync that overwrites the local variables of every thread.
sync_networks_op_all(w) ==
    local_vars' = [o \in Threads |-> shared_vars]

\* misc/network_ops.sync_networks_op: the local variables are overwritten by
\* the shared ones in one bulk copy.
sync_networks_op(w) ==
    local_vars' = [local_vars EXCEPT ![w] = shared_vars]

\* An iteration that trains right after its sync.
AfterSyncTrains == "Training"

\* The statement of run() after the sync (line 300): get_trajectory, line 301.
AfterSync == "Collecting"

\* sess.run([self.ac_sync_net])
Sync(w) ==
    /\ pc[w] = "Syncing"
    /\ sync_networks_op(w)
    /\ pc' = [pc EXCEPT ![w] = AfterSync]
    /\ UNCHANGED <<T, global_step, stop_requested, save_model, saved, shared_vars,
                   trajectory, pending, T_read, learn_pc, job_i,
                   started, completed, steps_sum, started_at_stop>>
    /\ OnlyA3C

\* The "steps" get_trajectory can return for cap L: i + 1 for the last index
\* i of range(L) the loop reached (it stops early when the environment
\* reports done).
TrajectorySteps(L) == 1 .. L

\* trajectory = self.get_trajectory(self.config["episode_max_length"]), the
\* thread-local computations that follow it (bootstrap, returns, baseline)
\* and the start of sess.run(fetches), which computes the gradients from
\* the local variables: none of them reads or writes shared state.
Collect(w) ==
    /\ pc[w] = "Collecting"
    /\ \E r \in TrajectorySteps(episode_max_length) :
           trajectory' = [trajectory EXCEPT ![w] = r]
    /\ pending' = [pending EXCEPT ![w] = VarIdx]
    /\ pc' = [pc EXCEPT ![w] = "Training"]
    /\ UNCHANGED <<T, global_step, stop_requested, save_model, saved, shared_vars,
                   local_vars, T_read, learn_pc, job_i,
                   started, completed, steps_sum, started_at_stop>>
    /\ OnlyA3C

\* An environment whose error shows only after the update of the iteration.
RaisesAfterTraining == "ReadT"

\* Where in run() a call of the environment is made: inside get_trajectory
\* (env.reset of line 257, env.step of line 266).
RaisesAt == "Collecting"

\* self.env.reset() or self.env.step() raises inside get_trajectory: neither
\* get_trajectory nor run() has a try block, so the exception ends run() and
\* the thread with it.
CollectRaises(w) ==
    /\ pc[w] = RaisesAt
    /\ pc' = [pc EXCEPT ![w] = "Failed"]
    /\ UNCHANGED <<T, global_step, stop_requested, save_model, saved, shared_vars,
                   local_vars, trajectory, pending, T_read, learn_pc, job_i,
                   started, completed, steps_sum, started_at_stop>>
    /\ OnlyA3C

\* The update of one shared variable by the train_op of thread w: the
\* gradient of w is added to the current value of the variable.
apply_gradient(v, w) == [v EXCEPT ![w] = @ + 1]

\* optimizer.apply_gradients(zip(processed_grads, master.shared_ac_net.vars)):
\* one update per (gradient, variable) pair, each atomic, in no fixed order.
ApplyVar(w, v) ==
    /\ pc[w] = "Training"
    /\ v \in pending[w]
    /\ shared_vars' = [shared_vars EXCEPT ![v] = apply_gradient(@, w)]
    /\ pending' = [pending EXCEPT ![w] = @ \ {v}]
    /\ UNCHANGED <<T, global_step, stop_requested, save_model, saved,
                   local_vars, pc, trajectory, T_read, learn_pc, job_i,
                   started, completed, steps_sum, started_at_stop>>
    /\ OnlyA3C

\* An increment per updated variable instead of one per call.
global_step_inc_per_var == Cardinality(VarIdx)

\* The increment train_op makes for one call.
global_step_inc == 1

\* apply_gradients(..., global_step=master.global_step): once every variable
\* is updated the counter is incremented, and sess.run returns.
IncGlobalStep(w) ==
    /\ pc[w] = "Training"
    /\ pending[w] = {}
    /\ global_step' = global_step + global_step_inc
    /\ pc' = [pc EXCEPT ![w] = "ReadT"]
    /\ UNCHANGED <<T, stop_requested, save_model, saved, shared_vars,
                   local_vars, trajectory, pending, T_read, learn_pc, job_i,
                   started, completed, steps_sum, started_at_stop>>
    /\ OnlyA3C

\* self.master.T += trajectory["steps"], first half: the attribute is loaded.
ReadT(w) ==
    /\ pc[w] = "ReadT"
    /\ T_read' = [T_read EXCEPT ![w] = T]
    /\ pc' = [pc EXCEPT ![w] = "WriteT"]
    /\ UNCHANGED <<T, global_step, stop_requested, save_model, saved, shared_vars,
                   local_vars, trajectory, pending, learn_pc, job_i,
                   started, completed, steps_sum, started_at_stop>>
    /\ OnlyA3C

\* self.master.T += trajectory["steps"], second half: the sum is stored. The
\* iteration ends here; its trajectory and the loaded value are dead.
WriteT(w) ==
    /\ pc[w] = "WriteT"
    /\ T' = T_read[w] + trajectory[w]
    /\ completed' = [completed EXCEPT ![w] = @ + 1]
    /\ steps_sum' = steps_sum + trajectory[w]
    /\ trajectory' = [trajectory EXCEPT ![w] = NoTrajectory]
    /\ T_read' = [T_read EXCEPT ![w] = 0]
    /\ pc' = [pc EXCEPT ![w] = "Idle"]
    /\ UNCHANGED <<global_step, stop_requested, save_model, saved, shared_vars,
                   local_vars, pending, learn_pc, job_i,
                   started, started_at_stop>>
    /\ OnlyA3C

(* ----------------------------- A3C.learn ------------------------------ *)

\* signal.signal(signal.SIGINT, self.signal_handler)
RegisterHandler ==
    /\ learn_pc = "signal"
    /\ learn_pc' = "start"
    /\ job_i' = 0
    /\ UNCHANGED <<T, global_step, stop_requested, save_model, saved, shared_vars,
                   local_vars, pc, trajectory, pending, T_read,
                   started, completed, steps_sum, started_at_stop>>
    /\ OnlyA3C

\* A3C.signal_handler, run when SIGINT arrives after the registration.
signal_handler ==
    /\ learn_pc # "signal"
    /\ ~stop_requested
    /\ stop_requested' = TRUE
    /\ started_at_stop' = started
    /\ UNCHANGED <<T, global_step, save_model, saved, shared_vars,
                   local_vars, pc, trajectory, pending, T_read, learn_pc, job_i,
                   started, completed, steps_sum>>
    /\ OnlyA3C

\* for job in self.jobs: job.start()
StartJob ==
    /\ learn_pc = "start"
    /\ IF job_i < n_threads
       THEN /\ pc' = [pc EXCEPT ![job_i] = "Idle"]
            /\ job_i' = job_i + 1
            /\ UNCHANGED learn_pc
       ELSE /\ learn_pc' = "join"
            /\ job_i' = 0
            /\ UNCHANGED pc
    /\ UNCHANGED <<T, global_step, stop_requested, save_model, saved, shared_vars,
                   local_vars, trajectory, pending, T_read,
                   started, completed, steps_sum, started_at_stop>>
    /\ OnlyA3C

\* A join that does not wait for the thread.
JoinableAtOnce(w) == TRUE

\* A join that waits for a normal return of run().
JoinableOnReturn(w) == pc[w] = "Terminated"

\* Thread.join returns once the thread has ended: run() has returned or an
\* exception has ended it.
Joinable(w) == pc[w] \in {"Terminated", "Failed"}

\* for job in self.jobs: job.join()
JoinJob ==
    /\ learn_pc = "join"
    /\ IF job_i < n_threads
       THEN /\ Joinable(job_i)
            /\ job_i' = job_i + 1
            /\ UNCHANGED learn_pc
       ELSE /\ learn_pc' = "save"
            /\ UNCHANGED job_i
    /\ UNCHANGED <<T, global_step, stop_requested, save_model, saved, shared_vars,
                   local_vars, pc, trajectory, pending, T_read,
                   started, completed, steps_sum, started_at_stop>>
    /\ OnlyA3C

\* A save that does not look at the configuration.
SaveAlways == TRUE

\* if self.config["save_model"]:
SaveConfigured == save_model

\* if self.config["save_model"]: self.saver.save(...); then learn() returns.
SaveAndReturn ==
    /\ learn_pc = "save"
    /\ saved' = IF SaveConfigured THEN saved + 1 ELSE saved
    /\ learn_pc' = "returned"
    /\ UNCHANGED <<T, global_step, stop_requested, save_model, shared_vars,
                   local_vars, pc, trajectory, pending, T_read, job_i,
                   started, completed, steps_sum, started_at_stop>>
    /\ OnlyA3C

\* The protocol at rest, for the specifications that do not run it.
IdleA3C == InitA3C /\ save_model = FALSE

(* ------------------------- rational numbers --------------------------- *)
\* Rewards, values, gamma and returns are floats in the code; the model
\* computes with exact rationals <<numerator, denominator>> in lowest terms,
\* denominator positive.

Abs(n) == IF n < 0 THEN -n ELSE n

RECURSIVE GCD(_, _)
GCD(a, b) == IF b = 0 THEN a ELSE GCD(b, a % b)

Rat(n, d) ==
    LET g == GCD(Abs(n), Abs(d))
        sgn == IF d < 0 THEN -1 ELSE 1
    IN  <<sgn * (n \div g), sgn * (d \div g)>>

R(n) == <<n, 1>>

RAdd(a, b) == Rat(a[1] * b[2] + b[1] * a[2], a[2] * b[2])

RSub(a, b) == Rat(a[1] * b[2] - b[1] * a[2], a[2] * b[2])

RMul(a, b) == Rat(a[1] * b[1], a[2] * b[2])

RLess(a, b) == a[1] * b[2] < b[1] * a[2]

\* Python sum() of a sequence of numbers.
RECURSIVE RSum(_)
RSum(s) == IF s = <<>> THEN R(0) ELSE RAdd(s[1], RSum(Tail(s)))

(* ---------------------- misc/utils.discount_rewards ------------------- *)

\* x[::-1]
RECURSIVE Reverse(_)
Reverse(s) == IF s = <<>> THEN <<>> ELSE Append(Reverse(Tail(s)), s[1])

\* scipy.signal.lfilter(b, a, x) for b = [b0], a = [1, a1], from rest:
\* out[n] = b0 * x[n] - a1 * out[n-1], out[-1] = 0.
RECURSIVE lfilter(_, _, _)
lfilter(b, a, s) ==
    IF s = <<>> THEN <<>>
    ELSE LET n == Len(s)
             out == lfilter(b, a, SubSeq(s, 1, n - 1))
             prev == IF n = 1 THEN R(0) ELSE out[n - 1]
         IN  Append(out, RSub(RMul(b[1], s[n]), RMul(a[2], prev)))

\* signal.lfilter([1], [1, -gamma], x[::-1])[::-1] without the last reversal.
discount_rewards_forward(s, g) ==
    lfilter(<<R(1)>>, <<R(1), RSub(R(0), g)>>, Reverse(s))

\* return signal.lfilter([1], [1, -gamma], x[::-1], axis=0)[::-1]
discount_rewards(s, g) ==
    Reverse(lfilter(<<R(1)>>, <<R(1), RSub(R(0), g)>>, Reverse(s)))

(* -------------------- A3CThread.get_trajectory ------------------------ *)

\* Largest magnitude of a reward the environment returns.
MaxRaw == 2

\* Longest argument of discount_rewards drawn in SpecDisc.
MaxLen == 3

EnvStates == {0, 1}

Actions == {0, 1}

RawRewards == {R(r) : r \in (-MaxRaw) .. MaxRaw}

\* Values of gamma the runs are configured with.
GammaSet == {R(0), Rat(1, 2), Rat(9, 10)}

\* Outputs of a critic network.
ValueSet == {Rat(1, 2), R(2)}

\* The loop variable before the first pass of the loop: not yet bound. The
\* local `done` is bound by the same pass, so it is unbound exactly when i is.
Unbound == 0 - 1

\* np.clip(a, a_min, a_max)
np_clip(a, a_min, a_max) ==
    IF RLess(a, a_min) THEN a_min ELSE IF RLess(a_max, a) THEN a_max ELSE a

\* Before get_trajectory is called: nothing collected.
NoTraj ==
    /\ traj_pc = "reset"
    /\ state = 0
    /\ states = <<>>
    /\ actions = <<>>
    /\ rewards = <<>>
    /\ i = Unbound
    /\ done = FALSE
    /\ steps = 0
    /\ reward_sum = R(0)
    /\ returns = <<>>
    /\ env_dones = <<>>
    /\ collected = <<>>

InitTraj ==
    /\ cap \in 0 .. episode_max_length
    /\ gamma \in GammaSet
    /\ ac_net_value \in [EnvStates -> ValueSet]
    /\ shared_value \in [EnvStates -> ValueSet]
    /\ NoTraj

\* The iteration at rest, for the specifications that do not run it.
IdleTraj ==
    /\ cap = 0
    /\ gamma = R(0)
    /\ ac_net_value = [s \in EnvStates |-> R(0)]
    /\ shared_value = [s \in EnvStates |-> R(0)]
    /\ NoTraj

\* Lines 257-262: state = self.env.reset(); the lists start empty.
Reset ==
    /\ traj_pc = "reset"
    /\ state' \in EnvStates
    /\ states' = <<>>
    /\ actions' = <<>>
    /\ rewards' = <<>>
    /\ traj_pc' = "loop"
    /\ UNCHANGED <<cap, gamma, ac_net_value, shared_value, i, done, steps,
                   reward_sum, returns, env_dones, collected>>
    /\ OnlyTraj

\* `if done: break`
BreakOnDone(d) == d

\* One pass of `for i in range(episode_max_length)` (lines 263-274): the
\* action is chosen, the state recorded, the environment stepped, the reward
\* clipped, action and reward recorded; the loop ends on done or after the
\* last index.
Step ==
    /\ traj_pc = "loop"
    /\ Len(states) < cap
    /\ \E a \in Actions, s2 \in EnvStates, rew \in RawRewards, d \in BOOLEAN :
         /\ i' = Len(states)
         /\ states' = Append(states, state)
         /\ state' = s2
         /\ actions' = Append(actions, a)
         /\ rewards' = Append(rewards, np_clip(rew, R(-1), R(1)))
         /\ done' = d
         /\ env_dones' = Append(env_dones, d)
         /\ traj_pc' = IF BreakOnDone(d) \/ Len(states) + 1 >= cap
                        THEN "return" ELSE "loop"
    /\ UNCHANGED <<cap, gamma, ac_net_value, shared_value, steps, reward_sum,
                   returns, collected>>
    /\ OnlyTraj

\* "steps": i, one short.
ReturnedStepsShort(k) == k

\* "steps": i + 1
ReturnedSteps(k) == k + 1

\* Lines 275-281: the dictionary is built. With an empty range the loop body
\* never ran, `done` and `i` are unbound and the return statement raises.
Return ==
    /\ \/ traj_pc = "return"
       \/ traj_pc = "loop" /\ cap = 0
    /\ IF i = Unbound
       THEN /\ traj_pc' = "raised"
            /\ UNCHANGED <<steps, collected>>
       ELSE /\ traj_pc' = "sum"
            /\ steps' = ReturnedSteps(i)
            /\ collected' = rewards
    /\ UNCHANGED <<cap, gamma, ac_net_value, shared_value, state, states, actions,
                   rewards, i, done, reward_sum, returns, env_dones>>
    /\ OnlyTraj

(* ------------------ A3CThread.run, lines 302 to 304 ------------------- *)

\* reward = sum(trajectory["reward"])
SumReward ==
    /\ traj_pc = "sum"
    /\ reward_sum' = RSum(rewards)
    /\ traj_pc' = "bootstrap"
    /\ UNCHANGED <<cap, gamma, ac_net_value, shared_value, state, states, actions,
                   rewards, i, done, steps, returns, env_dones, collected>>
    /\ OnlyTraj

\* The value output of the shared network instead of the local one.
get_critic_value_shared(s) == shared_value[s]

\* A3CThread.get_critic_value(states)[0]: the value output of the local
\* network self.ac_net for one state (the recurrent state the network is
\* fed with is part of the opaque evaluation).
get_critic_value(s) == ac_net_value[s]

\* 0 if trajectory["done"] else self.get_critic_value(trajectory["state"][None, -1])[0]
LastReward(d, ss) == IF d THEN R(0) ELSE get_critic_value(ss[Len(ss)])

\* trajectory["reward"][-1] = ... (line 303)
Bootstrap ==
    /\ traj_pc = "bootstrap"
    /\ rewards' = [rewards EXCEPT ![Len(rewards)] = LastReward(done, states)]
    /\ traj_pc' = "discount"
    /\ UNCHANGED <<cap, gamma, ac_net_value, shared_value, state, states, actions,
                   i, done, steps, reward_sum, returns, env_dones, collected>>
    /\ OnlyTraj

\* returns = discount_rewards(trajectory["reward"], self.config["gamma"])
Discount ==
    /\ traj_pc = "discount"
    /\ returns' = discount_rewards(rewards, gamma)
    /\ traj_pc' = "done"
    /\ UNCHANGED <<cap, gamma, ac_net_value, shared_value, state, states, actions,
                   rewards, i, done, steps, reward_sum, env_dones, collected>>
    /\ OnlyTraj

(* ------------------- discount_rewards on drawn inputs ----------------- *)

RewardVals == {R(-1), R(0), R(1)}

SeqsUpTo(S, n) == UNION {[1 .. k -> S] : k \in 0 .. n}

InitDisc ==
    /\ x \in SeqsUpTo(RewardVals, MaxLen)
    /\ gamma_x \in GammaSet
    /\ y = <<>>
    /\ y_pc = "call"

\* No call of discount_rewards on drawn inputs.
IdleDisc ==
    /\ x = <<>>
    /\ gamma_x = R(0)
    /\ y = <<>>
    /\ y_pc = "idle"

CallDiscount ==
    /\ y_pc = "call"
    /\ y' = discount_rewards(x, gamma_x)
    /\ y_pc' = "returned"
    /\ UNCHANGED <<x, gamma_x>>
    /\ OnlyDisc

(* ------------------------ agents/env_runner.py ------------------------ *)

\* Largest timesteps_per_batch and trajectories_per_batch of the model runs.
MaxBatch == 3

\* Number of calls a caller makes on one EnvRunner in the model runs.
MaxCalls == 2

\* Rewards the environment of an EnvRunner returns: below, inside and
\* above the range [-1, 1].
RunnerRewards == {0 - MaxRaw, 1, MaxRaw}

\* An environment with several states and every kind of reward, driven by
\* a policy that always chooses the same action.
FullEnv == [states |-> EnvStates, actions |-> {0}, rewards |-> RunnerRewards]

\* An environment with one state, one action and the rewards 0 and 1: the
\* batches of get_trajectories differ by the lengths of their trajectories.
SmallEnv == [states |-> {0}, actions |-> {0}, rewards |-> {0, 1}]

\* config of the EnvRunner after self.config.update(config).
RunnerConfigs ==
    [batch_update : {"timesteps", "trajectories"},
     episode_max_length : 0 .. episode_max_length,
     timesteps_per_batch : 0 .. MaxBatch,
     trajectories_per_batch : 0 .. MaxBatch]

\* The defaults of EnvRunner.__init__ for the batch settings, used by the
\* runs that only call get_steps and get_trajectory.
PlainConfigs ==
    {c \in RunnerConfigs : /\ c.batch_update = "timesteps"
                           /\ c.timesteps_per_batch = MaxBatch
                           /\ c.trajectories_per_batch = 0}

\* No call in progress, nothing bound.
NoCall ==
    /\ run_pc = "ready"
    /\ entry = "none"
    /\ calls = 0
    /\ caller_stop = FALSE
    /\ caller_render = FALSE
    /\ n_steps = 0
    /\ reset = FALSE
    /\ stop_at_trajectory_end = FALSE
    /\ render = FALSE
    /\ memory = <<>>
    /\ passes = 0
    /\ trajectories = <<>>
    /\ timesteps_total = 0
    /\ i_traj = 0
    /\ h_steps = 0
    /\ h_reward = 0
    /\ h_episodes = 0
    /\ h_raw = <<>>
    /\ h_resets = 0

\* EnvRunner.__init__: the counters are zero and reset_env() has run.
InitRun ==
    /\ \/ env = FullEnv /\ config \in PlainConfigs
       \/ env = SmallEnv /\ config \in RunnerConfigs
    /\ summary_writer \in BOOLEAN
    /\ self_state \in env.states
    /\ episode_steps = 0
    /\ episode_reward = 0
    /\ n_episodes = 0
    /\ NoCall

\* The EnvRunner at rest, for the specifications that do not run it.
IdleRun ==
    /\ env = SmallEnv
    /\ config = [batch_update |-> "timesteps", episode_max_length |-> 0,
                 timesteps_per_batch |-> 0, trajectories_per_batch |-> 0]
    /\ summary_writer = FALSE
    /\ self_state = 0
    /\ episode_steps = 0
    /\ episode_reward = 0
    /\ n_episodes = 0
    /\ NoCall

\* ExperiencesMemory.add(state, action, reward, value, terminal, features):
\* appends one record (value and features are opaque and left out).
memory_add(m, s, a, r, t) ==
    Append(m, [state |-> s, action |-> a, reward |-> r, terminal |-> t])

\* A call of get_steps starts with its own locals: the memory an earlier
\* call returned belongs to its caller.
NewFrame ==
    /\ memory' = <<>>
    /\ passes' = 0
    /\ h_raw' = <<>>
    /\ h_resets' = 0

\* A caller invokes get_steps(n_steps, reset, stop_at_trajectory_end, render).
CallGetSteps ==
    /\ run_pc = "ready"
    /\ calls < MaxCalls
    /\ env = FullEnv
    /\ \E n \in 0 .. episode_max_length, r, s, d \in BOOLEAN :
         /\ n_steps' = n
         /\ reset' = r
         /\ stop_at_trajectory_end' = s
         /\ render' = d
    /\ entry' = "get_steps"
    /\ calls' = calls + 1
    /\ run_pc' = "get_steps"
    /\ NewFrame
    /\ UNCHANGED <<env, config, summary_writer, self_state, episode_steps,
                   episode_reward, n_episodes, caller_stop, caller_render,
                   trajectories, timesteps_total, i_traj,
                   h_steps, h_reward, h_episodes>>
    /\ OnlyRun

\* The parameters of get_steps as get_trajectory binds them (line 83):
\* self.get_steps(self.config["episode_max_length"], stop_at_trajectory_end,
\* render), three positional arguments for the parameters n_steps, reset and
\* stop_at_trajectory_end; render keeps its default.
get_trajectory_args(stop, rend) ==
    [n_steps |-> config.episode_max_length,
     reset |-> stop,
     stop_at_trajectory_end |-> rend,
     render |-> FALSE]

\* A caller invokes get_trajectory(stop_at_trajectory_end, render).
CallGetTrajectory ==
    /\ run_pc = "ready"
    /\ calls < MaxCalls
    /\ env = FullEnv
    /\ \E s, d \in BOOLEAN :
         /\ caller_stop' = s
         /\ caller_render' = d
         /\ n_steps' = get_trajectory_args(s, d).n_steps
         /\ reset' = get_trajectory_args(s, d).reset
         /\ stop_at_trajectory_end' = get_trajectory_args(s, d).stop_at_trajectory_end
         /\ render' = get_trajectory_args(s, d).render
    /\ entry' = "get_trajectory"
    /\ calls' = calls + 1
    /\ run_pc' = "get_steps"
    /\ NewFrame
    /\ UNCHANGED <<env, config, summary_writer, self_state, episode_steps,
                   episode_reward, n_episodes,
                   trajectories, timesteps_total, i_traj,
                   h_steps, h_reward, h_episodes>>
    /\ OnlyRun

\* A caller invokes get_trajectories(stop_at_trajectory_end, render): lines
\* 87-90. (With episode_max_length = 0 and "timesteps" the loop never ends;
\* the model runs call it with a cap of at least 1.)
CallGetTrajectories ==
    /\ run_pc = "ready"
    /\ calls = 0
    /\ env = SmallEnv
    /\ config.episode_max_length >= 1
    /\ \E s, d \in BOOLEAN :
         /\ caller_stop' = s
         /\ caller_render' = d
    /\ trajectories' = <<>>
    /\ timesteps_total' = 0
    /\ i_traj' = 0
    /\ entry' = "get_trajectories"
    /\ calls' = calls + 1
    /\ run_pc' = "while"
    /\ UNCHANGED <<env, config, summary_writer, self_state, episode_steps,
                   episode_reward, n_episodes, n_steps, reset,
                   stop_at_trajectory_end, render, memory, passes,
                   h_steps, h_reward, h_episodes, h_raw, h_resets>>
    /\ OnlyRun

\* use_timesteps = self.config["batch_update"] == "timesteps"
use_timesteps == config.batch_update = "timesteps"

\* A batch loop that counts trajectories in every mode.
WhileGuardByCount == i_traj < config.trajectories_per_batch

\* The guard of the while loop of get_trajectories (lines 91-92).
WhileGuard ==
    \/ use_timesteps /\ timesteps_total < config.timesteps_per_batch
    \/ ~use_timesteps /\ i_traj < config.trajectories_per_batch

\* The while loop of get_trajectories: the guard is true, i is incremented
\* and get_trajectory called (lines 93-94), or the list is returned.
While ==
    /\ run_pc = "while"
    /\ IF WhileGuard
       THEN /\ i_traj' = i_traj + 1
            /\ n_steps' = get_trajectory_args(caller_stop, caller_render).n_steps
            /\ reset' = get_trajectory_args(caller_stop, caller_render).reset
            /\ stop_at_trajectory_end' =
                   get_trajectory_args(caller_stop, caller_render).stop_at_trajectory_end
            /\ render' = get_trajectory_args(caller_stop, caller_render).render
            /\ run_pc' = "get_steps"
       ELSE /\ run_pc' = "ready"
            /\ UNCHANGED <<i_traj, n_steps, reset, stop_at_trajectory_end, render>>
    /\ UNCHANGED <<env, config, summary_writer, self_state, episode_steps,
                   episode_reward, n_episodes, entry, calls, caller_stop,
                   caller_render, memory, passes, trajectories, timesteps_total,
                   h_steps, h_reward, h_episodes, h_raw, h_resets>>
    /\ OnlyRun

\* get_steps, lines 46-49: the optional reset_env() and the empty memory.
GetStepsBegin ==
    /\ run_pc = "get_steps"
    /\ IF reset
       THEN /\ self_state' \in env.states
            /\ h_steps' = 0
            /\ h_reward' = 0
       ELSE UNCHANGED <<self_state, h_steps, h_reward>>
    /\ memory' = <<>>
    /\ h_raw' = <<>>
    /\ h_resets' = 0
    /\ passes' = 0
    /\ run_pc' = "loop"
    /\ UNCHANGED <<env, config, summary_writer, episode_steps,
                   episode_reward, n_episodes, entry, calls, caller_stop,
                   caller_render, n_steps, reset, stop_at_trajectory_end, render,
                   trajectories, timesteps_total, i_traj, h_episodes>>
    /\ OnlyRun

\* A loop that never breaks.
BreakLoopNever == FALSE

\* if stop_at_trajectory_end: break (lines 76-77), inside `if done:`.
BreakLoop == stop_at_trajectory_end

\* One pass of `for _ in range(n_steps)` (lines 50-79): the action is
\* chosen, the environment stepped, the record added with the reward as the
\* environment returned it, the counters advanced; on done the counters
\* are reset if there is a summary writer, the environment is reset, and
\* the loop is left if stop_at_trajectory_end.
LoopPass ==
    /\ run_pc = "loop"
    /\ passes < n_steps
    /\ \E a \in env.actions, new_state \in env.states, rew \in env.rewards,
          d \in BOOLEAN, s0 \in env.states :
         /\ memory' = memory_add(memory, self_state, a, rew, d)
         /\ h_raw' = Append(h_raw, rew)
         /\ IF d
            THEN /\ IF summary_writer
                    THEN /\ episode_reward' = 0
                         /\ episode_steps' = 0
                         /\ n_episodes' = n_episodes + 1
                    ELSE /\ episode_reward' = episode_reward + rew
                         /\ episode_steps' = episode_steps + 1
                         /\ UNCHANGED n_episodes
                 /\ self_state' = s0
                 /\ h_steps' = 0
                 /\ h_reward' = 0
                 /\ h_episodes' = h_episodes + 1
                 /\ h_resets' = h_resets + 1
                 /\ run_pc' = IF BreakLoop THEN "return" ELSE "loop"
            ELSE /\ episode_reward' = episode_reward + rew
                 /\ episode_steps' = episode_steps + 1
                 /\ UNCHANGED n_episodes
                 /\ self_state' = new_state
                 /\ h_steps' = h_steps + 1
                 /\ h_reward' = h_reward + rew
                 /\ UNCHANGED <<h_episodes, h_resets>>
                 /\ run_pc' = "loop"
    /\ passes' = passes + 1
    /\ UNCHANGED <<env, config, summary_writer, entry, calls, caller_stop,
                   caller_render, n_steps, reset, stop_at_trajectory_end, render,
                   trajectories, timesteps_total, i_traj>>
    /\ OnlyRun

\* return memory (line 80), after the break or the last pass; inside
\* get_trajectories the trajectory is appended and counted (lines 95-96).
GetStepsReturn ==
    /\ \/ run_pc = "return"
       \/ run_pc = "loop" /\ passes >= n_steps
    /\ IF entry = "get_trajectories"
       THEN /\ trajectories' = Append(trajectories, memory)
            /\ timesteps_total' = timesteps_total + Len(memory)
            /\ run_pc' = "while"
       ELSE /\ run_pc' = "ready"
            /\ UNCHANGED <<trajectories, timesteps_total>>
    /\ UNCHANGED <<env, config, summary_writer, self_state, episode_steps,
                   episode_reward, n_episodes, entry, calls, caller_stop,
                   caller_render, n_steps, reset, stop_at_trajectory_end, render,
                   memory, passes, i_traj, h_steps, h_reward, h_episodes, h_raw, h_resets>>
    /\ OnlyRun

(* ------------- A3CThread.__init__: the gradients of train_op ---------- *)

\* Largest magnitude of a gradient component in the model runs.
MaxGrad == 3

\* Largest gradient_clip_value of the model runs (the default of the code
\* is 40).
MaxClip == 2

\* The components of a gradient tensor: two per tensor.
Components == 1 .. 2

\* Gradient tensors.
GradTensors == [Components -> (0 - MaxGrad) .. MaxGrad]

\* No clipping at all.
tf_identity(t, clip_value_min, clip_value_max) == t

\* tf.clip_by_value(t, clip_value_min, clip_value_max), component by
\* component.
tf_clip_by_value(t, clip_value_min, clip_value_max) ==
    [c \in DOMAIN t |->
        IF t[c] < clip_value_min THEN clip_value_min
        ELSE IF t[c] > clip_value_max THEN clip_value_max
        ELSE t[c]]

\* The arguments of A3CThread.__init__ and the gradients tf.gradients
\* evaluates to in a run of train_op.
InitGrad ==
    /\ clip_gradients \in BOOLEAN
    /\ gradient_clip_value \in 1 .. MaxClip
    /\ grads \in [VarIdx -> GradTensors]
    /\ processed_grads = [v \in VarIdx |-> [c \in Components |-> 0]]
    /\ grad_pc = "grads"

\* The gradients at rest, for the specifications that do not use them.
IdleGrad ==
    /\ clip_gradients = FALSE
    /\ gradient_clip_value = 1
    /\ grads = [v \in VarIdx |-> [c \in Components |-> 0]]
    /\ processed_grads = [v \in VarIdx |-> [c \in Components |-> 0]]
    /\ grad_pc = "grads"

\* Lines 227-238: processed_grads, the gradients apply_gradients is given
\* for the shared variables.
ProcessGrads ==
    /\ grad_pc = "grads"
    /\ processed_grads' =
           IF clip_gradients
           THEN [v \in VarIdx |->
                    tf_clip_by_value(grads[v], 0 - gradient_clip_value,
                                     gradient_clip_value)]
           ELSE grads
    /\ grad_pc' = "applied"
    /\ UNCHANGED <<clip_gradients, gradient_clip_value, grads>>
    /\ OnlyGrad

(* ----------------------- misc/utils.soft_update ----------------------- *)

\* Longest list of variables given to soft_update in the model runs.
MaxVars == 2

\* Values of the variables, and of tau.
VarValues == {R(0), R(2)}

TauSet == {R(0), Rat(1, 2), R(1)}

Min(a, b) == IF a < b THEN a ELSE b

\* target.assign((1.0 - tau) * target + tau * source)
blend(source, target, t) ==
    RAdd(RMul(RSub(R(1), t), target), RMul(t, source))

\* The target variables after `for source, target in zip(...)`: zip stops
\* at the end of the shorter list.
assign_zipped(srcs, tgts, t) ==
    [j \in 1 .. Len(tgts) |->
        IF j <= Min(Len(srcs), Len(tgts)) THEN blend(srcs[j], tgts[j], t)
        ELSE tgts[j]]

\* A soft_update that assigns first and compares the lengths afterwards.
soft_update_checked_late(srcs, tgts, t) ==
    [raised |-> Len(srcs) # Len(tgts),
     target_vars |-> assign_zipped(srcs, tgts, t)]

\* soft_update(source_vars, target_vars, tau), lines 204-207: what it raises
\* and the target variables it leaves.
soft_update(srcs, tgts, t) ==
    IF Len(srcs) # Len(tgts)
    THEN [raised |-> TRUE, target_vars |-> tgts]
    ELSE [raised |-> FALSE, target_vars |-> assign_zipped(srcs, tgts, t)]

\* A hard_update that moves the targets half of the way.
hard_update_half(srcs, tgts) == soft_update(srcs, tgts, Rat(1, 2))

\* hard_update(source_vars, target_vars), line 217: soft_update with a tau
\* of 1.0.
hard_update(srcs, tgts) == soft_update(srcs, tgts, R(1))

InitSoft ==
    /\ source_vars \in UNION {[1 .. n -> VarValues] : n \in 0 .. MaxVars}
    /\ target_vars \in UNION {[1 .. n -> VarValues] : n \in 0 .. MaxVars}
    /\ tau \in TauSet
    /\ soft_pc = "call"
    /\ source_before = source_vars
    /\ target_before = target_vars

\* soft_update at rest, for the specifications that do not call it.
IdleSoft ==
    /\ source_vars = <<>>
    /\ target_vars = <<>>
    /\ tau = R(0)
    /\ soft_pc = "call"
    /\ source_before = <<>>
    /\ target_before = <<>>

\* The call soft_update(source_vars, target_vars, tau).
CallSoftUpdate ==
    /\ soft_pc = "call"
    /\ target_vars' = soft_update(source_vars, target_vars, tau).target_vars
    /\ soft_pc' = IF soft_update(source_vars, target_vars, tau).raised
                  THEN "ValueError" ELSE "returned"
    /\ UNCHANGED <<source_vars, tau, source_before, target_before>>
    /\ OnlySoft

\* The call hard_update(source_vars, target_vars), made on the variables as
\* they are, and made once more after it has returned.
CallHardUpdate ==
    /\ soft_pc \in {"call", "hard_once"}
    /\ source_before' = source_vars
    /\ target_before' = target_vars
    /\ target_vars' = hard_update(source_vars, target_vars).target_vars
    /\ soft_pc' = IF hard_update(source_vars, target_vars).raised
                  THEN "ValueError"
                  ELSE IF soft_pc = "call" THEN "hard_once" ELSE "hard_twice"
    /\ UNCHANGED <<source_vars, tau>>
    /\ OnlySoft

(* ---------------- A3C.__init__: the construction in detail ------------ *)

\* Largest config["n_threads"] of the constructions in the model runs.
MaxThreads == 4

Variants == {"A3CDiscrete", "A3CDiscreteCNN", "A3CContinuous"}

\* The attributes build_networks of the coordinator class sets (lines
\* 441-443, 453-459, 469-471).
SharedNets(cls) ==
    IF cls = "A3CDiscreteCNN" THEN {"shared_ac_net"}
    ELSE {"shared_actor_net", "shared_critic_net"}

\* The attributes build_networks of the thread class sets; make_thread of
\* each coordinator class makes the thread class of the same action space
\* (lines 331-333, 344-350, 361-363 and 446, 462, 474).
LocalNets(cls) ==
    IF cls = "A3CDiscreteCNN" THEN {"ac_net"}
    ELSE {"actor_net", "critic_net"}

InitBuild ==
    /\ variant \in Variants
    /\ cfg_n_threads \in 0 .. MaxThreads
    /\ cfg_save_model \in BOOLEAN
    /\ master_attrs = {}
    /\ thread_attrs = {}
    /\ jobs = <<>>
    /\ thread_id = 0
    /\ build_pc = "build_networks"

\* The construction at rest, for the specifications that do not run it.
IdleBuild ==
    /\ variant = "A3CDiscreteCNN"
    /\ cfg_n_threads = 0
    /\ cfg_save_model = FALSE
    /\ master_attrs = {}
    /\ thread_attrs = {}
    /\ jobs = <<>>
    /\ thread_id = 0
    /\ build_pc = "build_networks"

\* Line 394: self.build_networks()
BuildNetworks ==
    /\ build_pc = "build_networks"
    /\ master_attrs' = SharedNets(variant)
    /\ build_pc' = "saver"
    /\ UNCHANGED <<variant, cfg_n_threads, cfg_save_model, thread_attrs, jobs,
                   thread_id>>
    /\ OnlyBuild

\* Lines 395-398: with save_model, self.shared_ac_net.action and .states
\* are read; then the loop over range(n_threads) starts.
SaverSetup ==
    /\ build_pc = "saver"
    /\ build_pc' = IF cfg_save_model /\ "shared_ac_net" \notin master_attrs
                   THEN "AttributeError" ELSE "jobs"
    /\ UNCHANGED <<variant, cfg_n_threads, cfg_save_model, master_attrs,
                   thread_attrs, jobs, thread_id>>
    /\ OnlyBuild

\* One pass of the loop of lines 415-417: make_thread(thread_id) runs
\* A3CThread.__init__, which calls build_networks (line 217) and then
\* reads master.shared_ac_net and self.ac_net (lines 224-225, 238); the
\* thread is appended to self.jobs.
MakeThread ==
    /\ build_pc = "jobs"
    /\ thread_id < cfg_n_threads
    /\ thread_attrs' = LocalNets(variant)
    /\ IF "shared_ac_net" \in master_attrs /\ "ac_net" \in LocalNets(variant)
       THEN /\ jobs' = Append(jobs, thread_id)
            /\ thread_id' = thread_id + 1
            /\ UNCHANGED build_pc
       ELSE /\ build_pc' = "AttributeError"
            /\ UNCHANGED <<jobs, thread_id>>
    /\ UNCHANGED <<variant, cfg_n_threads, cfg_save_model, master_attrs>>
    /\ OnlyBuild

\* Line 419, after the last pass: the variables are initialized and the
\* constructor returns.
Initialize ==
    /\ build_pc = "jobs"
    /\ thread_id >= cfg_n_threads
    /\ build_pc' = "constructed"
    /\ UNCHANGED <<variant, cfg_n_threads, cfg_save_model, master_attrs,
                   thread_attrs, jobs, thread_id>>
    /\ OnlyBuild

(* ------------------- the discrete policy-gradient loss ---------------- *)

\* Float values of a probability, by mantissa and decimal exponent: zero,
\* a positive value below 1e-30, 1e-30, one half and one.
Zero == [m |-> 0, e |-> 0]

Tiny == [m |-> 1, e |-> 0 - 38]

Eps == [m |-> 1, e |-> 0 - 30]

Half == [m |-> 5, e |-> 0 - 1]

One == [m |-> 1, e |-> 0]

\* Outputs of the softmax over two actions.
ProbRows == {<<Zero, One>>, <<One, Zero>>, <<Half, Half>>, <<Tiny, One>>}

OneHots == {<<1, 0>>, <<0, 1>>}

\* Finite advantages.
AdvantageSet == {0 - 1, 0, 2}

\* Largest batch of the model runs.
MaxBatchLoss == 2

\* tf.reduce_sum(tf.multiply(self.probs, self.actions_taken), 1) for one
\* sample: the products with the zeros of the one-hot vector vanish and the
\* probability of the action taken is left.
good_probability(row, onehot) ==
    row[CHOOSE a \in DOMAIN row : onehot[a] = 1]

\* A loss without the replacement of zeros.
no_substitution(p) == p

\* tf.where(tf.equal(p, 0.0), 1e-30, p)
substitute_zero(p) == IF p.m = 0 THEN Eps ELSE p

\* tf.log(p) * advantage as a class of float values: log(0) is -inf, and
\* -inf times zero is nan.
eligibility(p, adv) ==
    IF p.m # 0 THEN "finite"
    ELSE IF adv = 0 THEN "nan"
    ELSE IF adv > 0 THEN "-inf" ELSE "+inf"

\* The class of -reduce_mean (line 63) or -reduce_sum (line 129) of the
\* terms of a batch that is not empty.
reduce(terms) ==
    LET S == {terms[j] : j \in DOMAIN terms}
    IN  IF S \subseteq {"finite"} THEN "finite"
        ELSE IF "nan" \in S \/ {"-inf", "+inf"} \subseteq S THEN "nan"
        ELSE IF "-inf" \in S THEN "+inf" ELSE "-inf"

InitLoss ==
    /\ network \in {"ActorNetworkDiscrete", "ActorCriticNetworkDiscreteCNN"}
    /\ \E n \in 1 .. MaxBatchLoss :
         /\ probs \in [1 .. n -> ProbRows]
         /\ actions_taken \in [1 .. n -> OneHots]
         /\ advantages \in [1 .. n -> AdvantageSet]
    /\ logged = <<>>
    /\ loss = "none"
    /\ loss_pc = "feed"

\* The loss at rest, for the specifications that do not evaluate it.
IdleLoss ==
    /\ network = "ActorNetworkDiscrete"
    /\ probs = <<>>
    /\ actions_taken = <<>>
    /\ advantages = <<>>
    /\ logged = <<>>
    /\ loss = "none"
    /\ loss_pc = "feed"

\* The evaluation of the actor loss (lines 59-63 and 125-129) for the
\* batch fed.
EvaluateLoss ==
    /\ loss_pc = "feed"
    /\ logged' = [j \in DOMAIN probs |->
                     substitute_zero(good_probability(probs[j], actions_taken[j]))]
    /\ loss' = reduce([j \in DOMAIN probs |->
                          eligibility(substitute_zero(
                              good_probability(probs[j], actions_taken[j])),
                              advantages[j])])
    /\ loss_pc' = "evaluated"
    /\ UNCHANGED <<network, probs, actions_taken, advantages>>
    /\ OnlyLoss

(* ------------- one update of a shared variable in detail -------------- *)

\* Updates each thread makes in the model runs.
MaxApplies == 3

InitApply ==
    /\ apply_value = InitialValue
    /\ apply_loaded = [w \in Threads |-> InitialValue]
    /\ apply_pc = [w \in Threads |-> "idle"]
    /\ apply_done = [w \in Threads |-> 0]

IdleApply == InitApply

\* A thread's train_op starts the update of the variable: the kernel loads
\* the current value. The optimizer is made by
\* tf.train.AdamOptimizer(learning_rate) (line 222), with use_locking left
\* at its default False, so the kernel takes no lock on the variable.
ApplyLoad(w) ==
    /\ apply_pc[w] = "idle"
    /\ apply_done[w] < MaxApplies
    /\ apply_loaded' = [apply_loaded EXCEPT ![w] = apply_value]
    /\ apply_pc' = [apply_pc EXCEPT ![w] = "loaded"]
    /\ UNCHANGED <<apply_value, apply_done>>
    /\ OnlyApply

\* The kernel stores the loaded value plus the update of the thread.
ApplyStore(w) ==
    /\ apply_pc[w] = "loaded"
    /\ apply_value' = apply_gradient(apply_loaded[w], w)
    /\ apply_loaded' = [apply_loaded EXCEPT ![w] = InitialValue]
    /\ apply_done' = [apply_done EXCEPT ![w] = @ + 1]
    /\ apply_pc' = [apply_pc EXCEPT ![w] = "idle"]
    /\ OnlyApply

(* ------------- the loop of run() with one thread more ----------------- *)

\* config["n_threads"] = 3: the threads of the run.
BudgetThreads == 0 .. n_threads

InitBudget ==
    /\ budget_T = 0
    /\ budget_pc = [w \in BudgetThreads |-> "Idle"]
    /\ budget_loaded = [w \in BudgetThreads |-> 0]

IdleBudget == InitBudget

\* The loop guard of line 298 with no shutdown requested; when it is true
\* the iteration runs up to line 324.
BudgetGuard(w) ==
    /\ budget_pc[w] = "Idle"
    /\ budget_pc' = [budget_pc EXCEPT ![w] =
                        IF budget_T < T_max THEN "ReadT" ELSE "Terminated"]
    /\ UNCHANGED <<budget_T, budget_loaded>>
    /\ OnlyBudget

\* self.master.T += trajectory["steps"], first half: the attribute is loaded.
BudgetReadT(w) ==
    /\ budget_pc[w] = "ReadT"
    /\ budget_loaded' = [budget_loaded EXCEPT ![w] = budget_T]
    /\ budget_pc' = [budget_pc EXCEPT ![w] = "WriteT"]
    /\ UNCHANGED budget_T
    /\ OnlyBudget

\* Second half: the sum with the steps of the trajectory is stored.
BudgetWriteT(w) ==
    /\ budget_pc[w] = "WriteT"
    /\ \E r \in TrajectorySteps(episode_max_length) :
           budget_T' = budget_loaded[w] + r
    /\ budget_loaded' = [budget_loaded EXCEPT ![w] = 0]
    /\ budget_pc' = [budget_pc EXCEPT ![w] = "Idle"]
    /\ OnlyBudget

(* ----------------------- training protocol: Spec ---------------------- *)

Init ==
    InitA3C /\ IdleTraj /\ IdleDisc /\ IdleRun /\ IdleGrad /\ IdleSoft
    /\ IdleBuild /\ IdleLoss /\ IdleApply /\ IdleBudget

Next ==
    \/ \E w \in Threads : GuardT(w)
    \/ \E w \in Threads : GuardStop(w)
    \/ \E w \in Threads : Sync(w)
    \/ \E w \in Threads : Collect(w)
    \/ \E w \in Threads : CollectRaises(w)
    \/ \E w \in Threads : \E v \in VarIdx : ApplyVar(w, v)
    \/ \E w \in Threads : IncGlobalStep(w)
    \/ \E w \in Threads : ReadT(w)
    \/ \E w \in Threads : WriteT(w)
    \/ RegisterHandler
    \/ signal_handler
    \/ StartJob
    \/ JoinJob
    \/ SaveAndReturn

Spec == Init /\ [][Next]_vars

(* ------------- training protocol under fair scheduling: SpecLive ------ *)

\* Any step of thread w whose calls of the environment return.
LiveWorkerStep(w) ==
    \/ GuardT(w)
    \/ GuardStop(w)
    \/ Sync(w)
    \/ Collect(w)
    \/ \E v \in VarIdx : ApplyVar(w, v)
    \/ IncGlobalStep(w)
    \/ ReadT(w)
    \/ WriteT(w)

\* Any step of the thread that runs learn().
LearnStep ==
    \/ RegisterHandler
    \/ StartJob
    \/ JoinJob
    \/ SaveAndReturn

NextLive ==
    \/ \E w \in Threads : GuardT(w)
    \/ \E w \in Threads : GuardStop(w)
    \/ \E w \in Threads : Sync(w)
    \/ \E w \in Threads : Collect(w)
    \/ \E w \in Threads : \E v \in VarIdx : ApplyVar(w, v)
    \/ \E w \in Threads : IncGlobalStep(w)
    \/ \E w \in Threads : ReadT(w)
    \/ \E w \in Threads : WriteT(w)
    \/ RegisterHandler
    \/ signal_handler
    \/ StartJob
    \/ JoinJob
    \/ SaveAndReturn

\* The threads are operating-system threads (threading.Thread, line 207;
\* job.start(), line 431): each one that can take a step takes it in the
\* end. SIGINT may never come.
Fairness ==
    /\ \A w \in Threads : WF_vars(LiveWorkerStep(w))
    /\ WF_vars(LearnStep)

SpecLive == Init /\ [][NextLive]_vars /\ Fairness

(* -------------------- one iteration in detail: SpecTraj --------------- *)

InitTrajSpec ==
    IdleA3C /\ InitTraj /\ IdleDisc /\ IdleRun /\ IdleGrad /\ IdleSoft
    /\ IdleBuild /\ IdleLoss /\ IdleApply /\ IdleBudget

NextTraj ==
    \/ Reset
    \/ Step
    \/ Return
    \/ SumReward
    \/ Bootstrap
    \/ Discount

SpecTraj == InitTrajSpec /\ [][NextTraj]_vars

(* ------------------------ discount_rewards: SpecDisc ------------------ *)

InitDiscSpec ==
    IdleA3C /\ IdleTraj /\ InitDisc /\ IdleRun /\ IdleGrad /\ IdleSoft
    /\ IdleBuild /\ IdleLoss /\ IdleApply /\ IdleBudget

NextDisc == CallDiscount

SpecDisc == InitDiscSpec /\ [][NextDisc]_vars

(* ------------------------- EnvRunner: SpecRun ------------------------ *)

InitRunSpec ==
    IdleA3C /\ IdleTraj /\ IdleDisc /\ InitRun /\ IdleGrad /\ IdleSoft
    /\ IdleBuild /\ IdleLoss /\ IdleApply /\ IdleBudget

NextRun ==
    \/ CallGetSteps
    \/ CallGetTrajectory
    \/ CallGetTrajectories
    \/ While
    \/ GetStepsBegin
    \/ LoopPass
    \/ GetStepsReturn

SpecRun == InitRunSpec /\ [][NextRun]_vars

(* ------------------- gradients of train_op: SpecGrad ----------------- *)

InitGradSpec ==
    IdleA3C /\ IdleTraj /\ IdleDisc /\ IdleRun /\ InitGrad /\ IdleSoft
    /\ IdleBuild /\ IdleLoss /\ IdleApply /\ IdleBudget

NextGrad == ProcessGrads

SpecGrad == InitGradSpec /\ [][NextGrad]_vars

(* -------------------------- soft_update: SpecSoft --------------------- *)

InitSoftSpec ==
    IdleA3C /\ IdleTraj /\ IdleDisc /\ IdleRun /\ IdleGrad /\ InitSoft
    /\ IdleBuild /\ IdleLoss /\ IdleApply /\ IdleBudget

NextSoft ==
    \/ CallSoftUpdate
    \/ CallHardUpdate

SpecSoft == InitSoftSpec /\ [][NextSoft]_vars

\* The groups of the specifications above, at rest.
IdleFirst == IdleA3C /\ IdleTraj /\ IdleDisc /\ IdleRun /\ IdleGrad /\ IdleSoft

(* ------------------- construction of A3C: SpecBuild ------------------- *)

InitBuildSpec == IdleFirst /\ InitBuild /\ IdleLoss /\ IdleApply /\ IdleBudget

NextBuild ==
    \/ BuildNetworks
    \/ SaverSetup
    \/ MakeThread
    \/ Initialize

SpecBuild == InitBuildSpec /\ [][NextBuild]_vars

(* ------------------------ actor loss: SpecLoss ------------------------ *)

InitLossSpec == IdleFirst /\ IdleBuild /\ InitLoss /\ IdleApply /\ IdleBudget

NextLoss == EvaluateLoss

SpecLoss == InitLossSpec /\ [][NextLoss]_vars

(* --------------- updates of one variable: SpecApply ------------------- *)

InitApplySpec == IdleFirst /\ IdleBuild /\ IdleLoss /\ InitApply /\ IdleBudget

NextApply ==
    \/ \E w \in Threads : ApplyLoad(w)
    \/ \E w \in Threads : ApplyStore(w)

SpecApply == InitApplySpec /\ [][NextApply]_vars

(* ------------------- one thread more: SpecBudget ---------------------- *)

InitBudgetSpec == IdleFirst /\ IdleBuild /\ IdleLoss /\ IdleApply /\ InitBudget

NextBudget ==
    \/ \E w \in BudgetThreads : BudgetGuard(w)
    \/ \E w \in BudgetThreads : BudgetReadT(w)
    \/ \E w \in BudgetThreads : BudgetWriteT(w)

SpecBudget == InitBudgetSpec /\ [][NextBudget]_vars

(* ------------------------------ properties --------------------------- *)

\* Workers between the end of train_op and the end of line 324.
AfterApply == {w \in Threads : pc[w] \in {"ReadT", "WriteT"}}

\* Workers inside an iteration of the loop.
MidIteration ==
    {w \in Threads : pc[w] \in {"Syncing", "Collecting", "Training", "ReadT", "WriteT"}}

\* Any step of worker w.
WorkerStep(w) ==
    \/ GuardT(w)
    \/ GuardStop(w)
    \/ Sync(w)
    \/ Collect(w)
    \/ CollectRaises(w)
    \/ \E v \in VarIdx : ApplyVar(w, v)
    \/ IncGlobalStep(w)
    \/ ReadT(w)
    \/ WriteT(w)

\* Workers whose thread has ended: run() returned or raised.
Ended == {w \in Threads : pc[w] \in {"Terminated", "Failed"}}

\* Every job.join() of learn() has returned.
AllJoined ==
    \/ learn_pc = "join" /\ job_i = n_threads
    \/ learn_pc \in {"save", "returned"}

\* C1: at every moment the shared counter T equals the sum of the step
\* counts of the iterations completed so far (no addition to T is lost).
C1_T_is_sum_of_steps == T = steps_sum

\* C2: no step of any worker makes T smaller.
C2_T_never_decreases == [][T' >= T]_vars

C4_shutdown_at_iteration_boundary ==
    /\ stop_requested => \A w \in Threads : started[w] = started_at_stop[w]
    /\ \A w \in MidIteration : ENABLED WorkerStep(w)
    /\ \A w \in Threads : pc[w] = "Terminated" => completed[w] = started[w]
    /\ \A w \in Threads : completed[w] <= started[w]

\* C4 witness: the flag is set and T is below T_max; one worker has
\* terminated while another is still finishing the iteration it had started.
C4_witness ==
    /\ stop_requested
    /\ T < T_max
    /\ \E w, u \in Threads :
         /\ pc[w] = "WriteT"
         /\ started[w] = started_at_stop[w]
         /\ pc[u] = "Terminated"

\* C5: learn() returns only when every worker has terminated (its thread
\* has ended), and once all
\* workers are joined the Global Step Counter, T and the shared variables
\* do not change.
C5_stable_after_join ==
    [][/\ (learn_pc' = "returned") => Ended' = Threads
       /\ AllJoined => UNCHANGED <<global_step, T, shared_vars>>]_vars

\* C5 witness: learn() has returned after some training.
C5_witness ==
    /\ learn_pc = "returned"
    /\ global_step > 0
    /\ ~stop_requested

\* C6: right after its sync a worker's local variables hold, of every other
\* worker's applies, either the whole update or nothing of it.
C6_sync_is_consistent_snapshot ==
    \A w \in Threads : pc[w] = "Collecting" =>
        \A v1, v2 \in VarIdx : \A u \in Threads \ {w} :
            local_vars[w][v1][u] = local_vars[w][v2][u]

\* C7: for n >= 1 the result G of discount_rewards(R, gamma) has the length n
\* of R, G[n] = R[n] and G[k] = R[k] + gamma * G[k+1] below n; gamma = 0 gives
\* G = R, and R = [1, 1, 1] with gamma = 0.9 gives [2.71, 1.9, 1].
C7_discount_recursion ==
    (y_pc = "returned" /\ Len(x) >= 1) =>
        /\ Len(y) = Len(x)
        /\ y[Len(x)] = x[Len(x)]
        /\ \A k \in 1 .. (Len(x) - 1) : y[k] = RAdd(x[k], RMul(gamma_x, y[k + 1]))
        /\ (gamma_x = R(0)) => y = x
        /\ (x = <<R(1), R(1), R(1)>> /\ gamma_x = Rat(9, 10)) =>
               y = <<Rat(271, 100), Rat(19, 10), R(1)>>

\* C7 witness: the example of the claim has been computed.
C7_witness ==
    /\ y_pc = "returned"
    /\ x = <<R(1), R(1), R(1)>>
    /\ gamma_x = Rat(9, 10)
    /\ y[1] = Rat(271, 100)

\* C8: for a trajectory that terminated naturally the rewards passed to
\* discount_rewards are the collected ones, and the last return is the last
\* collected reward.
C8_terminated_keeps_rewards ==
    (traj_pc \in {"discount", "done"} /\ done) =>
        /\ rewards = collected
        /\ (traj_pc = "done") => returns[Len(returns)] = collected[Len(collected)]

\* C9: for a trajectory cut off by the cap the last reward passed to
\* discount_rewards is the value the local network gives for the last
\* recorded state, and the earlier rewards are the collected ones.
C9_truncated_bootstraps_last ==
    (traj_pc \in {"discount", "done"} /\ ~done) =>
        /\ steps = cap
        /\ Len(rewards) = Len(collected)
        /\ rewards[Len(rewards)] = ac_net_value[states[Len(states)]]
        /\ \A k \in 1 .. (Len(rewards) - 1) : rewards[k] = collected[k]

\* C9 witness: a trajectory of two steps was cut off, its last reward was
\* replaced, and the two networks and the states they are asked about differ.
C9_witness ==
    /\ traj_pc = "done"
    /\ ~done
    /\ cap = 2
    /\ rewards[2] # collected[2]
    /\ rewards[1] = collected[1]
    /\ states[1] # states[2]
    /\ state # states[2]
    /\ ac_net_value[0] # ac_net_value[1]
    /\ ac_net_value # shared_value

\* C10: for a cap >= 1 the returned trajectory has "steps" states, actions
\* and rewards, 1 <= steps <= cap, the environment reported done on no step
\* before the last, and "done" is what it reported on the last step.
C10_trajectory_shape ==
    (traj_pc \in {"sum", "bootstrap", "discount", "done"} /\ cap >= 1) =>
        /\ Len(states) = steps
        /\ Len(actions) = steps
        /\ Len(rewards) = steps
        /\ Len(env_dones) = steps
        /\ 1 <= steps
        /\ steps <= cap
        /\ \A k \in 1 .. (steps - 1) : ~env_dones[k]
        /\ done = env_dones[steps]

\* C10 witness: with a cap of two the environment ended the episode on the
\* first step.
C10_witness ==
    /\ traj_pc = "sum"
    /\ cap = 2
    /\ steps = 1
    /\ done

\* C14: parameter ownership. The local variables of a worker change only by
\* that worker's own sync, which makes them equal to the shared variables
\* and changes neither the shared variables nor another worker's local
\* ones; the shared variables change only by one update of a running
\* train_op, which adds the gradient of its worker to one variable.
C14_parameter_ownership ==
    [][/\ \A w \in Threads :
            (local_vars'[w] # local_vars[w]) =>
                /\ pc[w] = "Syncing"
                /\ pc'[w] = "Collecting"
                /\ local_vars'[w] = shared_vars
       /\ \A w \in Threads :
            (pc[w] = "Syncing" /\ pc'[w] = "Collecting") =>
                /\ shared_vars' = shared_vars
                /\ \A o \in Threads \ {w} : local_vars'[o] = local_vars[o]
       /\ (shared_vars' # shared_vars) =>
            \E w \in Threads, v \in VarIdx :
                /\ pc[w] = "Training"
                /\ v \in pending[w]
                /\ shared_vars' = [shared_vars EXCEPT ![v] = apply_gradient(@, w)]]_vars

\* C14 witness: a worker has just synced to shared variables that hold
\* updates, while another worker still holds an older copy.
C14_witness ==
    \E w, o \in Threads :
        /\ pc[w] = "Collecting"
        /\ local_vars[w] = shared_vars
        /\ shared_vars # InitialVars
        /\ local_vars[o] # shared_vars

\* C15: the shared variables are saved at most once, only by learn() after
\* its last join, when every worker has ended; when learn() has returned
\* they have been saved exactly if save_model is configured; and after the
\* save no update is applied.
C15_save_iff_configured_after_join ==
    [][/\ saved' <= 1
       /\ (saved' # saved) => (learn_pc = "save" /\ AllJoined /\ Ended = Threads)
       /\ (saved' = 1) => (save_model' /\ learn_pc' = "returned")
       /\ (learn_pc' = "returned") => (saved' = 1 <=> save_model')
       /\ (saved >= 1) => UNCHANGED <<shared_vars, global_step>>]_vars

\* C15 witness: the model was saved after some training.
C15_witness ==
    /\ saved = 1
    /\ save_model
    /\ global_step > 0

\* C16: a worker in which the environment raised stays failed (no retry),
\* the step on which it fails changes neither the shared variables nor the
\* Global Step Counter nor T, and the shared variables hold of its updates
\* exactly those of its completed iterations: the iteration that failed
\* was started and contributed nothing.
C16_env_error_has_no_effect ==
    [][\A w \in Threads :
         /\ (pc[w] = "Failed") => (pc'[w] = "Failed")
         /\ (pc[w] # "Failed" /\ pc'[w] = "Failed") =>
                UNCHANGED <<shared_vars, global_step, T>>
         /\ (pc'[w] = "Failed") =>
                /\ started'[w] = completed'[w] + 1
                /\ \A v \in VarIdx : shared_vars'[v][w] = completed'[w]]_vars

\* C16 witness: a worker failed in its second iteration, after one that
\* was applied and counted.
C16_witness ==
    \E w \in Threads :
        /\ pc[w] = "Failed"
        /\ completed[w] = 1
        /\ global_step >= 1

\* Workers that are running: started and not ended.
Running == {w \in Threads : pc[w] \notin {"NotStarted", "Terminated", "Failed"}}

\* C17: a failed worker is never restarted; while a worker has failed every
\* running peer can take its next step, and a peer terminates only at its
\* own loop guard, because T reached T_max or shutdown was requested; once
\* every worker has ended, learn() can finish its joins and return.
C17_failure_leaves_peers_running ==
    /\ [](\A o \in Running : ENABLED WorkerStep(o))
    /\ []((Ended = Threads /\ learn_pc \in {"join", "save"}) =>
              ENABLED (JoinJob \/ SaveAndReturn))
    /\ [][\A o \in Threads :
            /\ (pc[o] = "Failed") => (pc'[o] = "Failed")
            /\ (pc[o] # "Terminated" /\ pc'[o] = "Terminated") =>
                   /\ pc[o] \in {"Idle", "GuardStop"}
                   /\ (T >= T_max \/ stop_requested)]_vars

\* C17 witness: one worker failed, its peer trained on up to T_max without
\* any shutdown request, and learn() has returned.
C17_witness ==
    /\ learn_pc = "returned"
    /\ ~stop_requested
    /\ T >= T_max
    /\ \E w, o \in Threads : pc[w] = "Failed" /\ pc[o] = "Terminated"

\* A call of the given method of the EnvRunner has returned.
Returned(method) == run_pc = "ready" /\ entry = method

\* C11: a trajectory EnvRunner.get_trajectory returned for its default
\* arguments (stop_at_trajectory_end = True, render = False) has at most
\* episode_max_length records and no terminal record before its last one.
C11_runner_trajectory_ends_at_done ==
    (Returned("get_trajectory") /\ caller_stop /\ ~caller_render) =>
        /\ Len(memory) <= config.episode_max_length
        /\ \A j \in 1 .. (Len(memory) - 1) : ~memory[j].terminal

\* The rewards A3CThread.get_trajectory returned lie in [-1, 1].
A3CRewardsClipped ==
    \A j \in 1 .. Len(collected) :
        ~RLess(collected[j], R(0 - 1)) /\ ~RLess(R(1), collected[j])

\* C12: every reward in the memory of EnvRunner.get_steps lies in [-1, 1]
\* and is the reward the environment returned, clipped to that range.
C12_recorded_rewards_clipped ==
    \A j \in 1 .. Len(memory) :
        LET raw == h_raw[j]
        IN  /\ memory[j].reward >= 0 - 1
            /\ memory[j].reward <= 1
            /\ memory[j].reward =
                   (IF raw < 0 - 1 THEN 0 - 1 ELSE IF raw > 1 THEN 1 ELSE raw)

RECURSIVE TotalRecords(_)
\* Sum of the lengths of the trajectories of a list.
TotalRecords(ts) ==
    IF ts = <<>> THEN 0 ELSE Len(ts[1]) + TotalRecords(Tail(ts))

\* C19: when get_trajectories returns, in "timesteps" mode the records of
\* the returned trajectories number at least timesteps_per_batch and those
\* of all but the last fewer than timesteps_per_batch; in any other mode
\* exactly trajectories_per_batch trajectories are returned.
C19_batch_modes ==
    Returned("get_trajectories") =>
        IF config.batch_update = "timesteps"
        THEN /\ TotalRecords(trajectories) >= config.timesteps_per_batch
             /\ (trajectories # <<>>) =>
                    (TotalRecords(SubSeq(trajectories, 1, Len(trajectories) - 1))
                         < config.timesteps_per_batch)
        ELSE Len(trajectories) = config.trajectories_per_batch

\* C19 witness: a "timesteps" batch of trajectories of different lengths
\* that ends above the threshold, although fewer trajectories than
\* trajectories_per_batch were collected.
C19_witness ==
    /\ Returned("get_trajectories")
    /\ config.batch_update = "timesteps"
    /\ Len(trajectories) = 2
    /\ Len(trajectories[1]) # Len(trajectories[2])
    /\ TotalRecords(trajectories) > config.timesteps_per_batch
    /\ Len(trajectories) < config.trajectories_per_batch

\* C20: with an episode cap of 0 A3CThread.get_trajectory raises nothing
\* and returns empty sequences, and the returns computed from them are empty.
C20_empty_trajectory_is_silent ==
    (cap = 0) =>
        /\ traj_pc # "raised"
        /\ (traj_pc = "done") => (collected = <<>> /\ returns = <<>>)

\* C13: when clip_gradients is set, every component of every gradient given
\* to apply_gradients for the shared variables lies in
\* [-gradient_clip_value, gradient_clip_value], and a component of the
\* computed gradient that lies in that range is given unchanged.
C13_applied_gradients_clipped ==
    (grad_pc = "applied" /\ clip_gradients) =>
        \A v \in VarIdx : \A c \in Components :
            /\ processed_grads[v][c] >= 0 - gradient_clip_value
            /\ processed_grads[v][c] <= gradient_clip_value
            /\ (/\ grads[v][c] >= 0 - gradient_clip_value
                /\ grads[v][c] <= gradient_clip_value)
                   => (processed_grads[v][c] = grads[v][c])

\* C13 witness: with clipping on, one tensor has a component above the
\* bound and one below it, the other a component inside the range.
C13_witness ==
    /\ grad_pc = "applied"
    /\ clip_gradients
    /\ \E v, u \in VarIdx :
         /\ grads[v][1] > gradient_clip_value
         /\ grads[v][2] < 0 - gradient_clip_value
         /\ grads[u][1] = gradient_clip_value
         /\ grads[u][2] = 0
         /\ processed_grads[v] # grads[v]
         /\ processed_grads[u] = grads[u]

\* C18: soft_update called with lists of different lengths raises
\* ValueError and leaves every target variable and every source variable
\* as it was at the call.
C18_soft_update_length_mismatch ==
    (soft_pc # "call" /\ Len(source_before) # Len(target_before)) =>
        /\ soft_pc = "ValueError"
        /\ target_vars = target_before
        /\ source_vars = source_before

\* C18 witness: the call raised although the lists have a common prefix in
\* which an assignment would have changed the target.
C18_witness ==
    /\ soft_pc = "ValueError"
    /\ Len(source_before) >= 1
    /\ Len(target_before) >= 1
    /\ blend(source_before[1], target_before[1], tau) # target_before[1]

\* C21: for every class of coordinator the construction raises nothing,
\* and once it has completed the jobs are config["n_threads"] threads with
\* the ids 0 .. n_threads - 1, in that order.
C21_construction_makes_n_threads ==
    /\ build_pc # "AttributeError"
    /\ (build_pc = "constructed") =>
           (jobs = [j \in 1 .. cfg_n_threads |-> j - 1])

\* The probability whose logarithm is taken for each sample of the batch.
LoggedOf(j) == good_probability(probs[j], actions_taken[j])

C25_no_update_lost ==
    (\A w \in Threads : apply_pc[w] = "idle") =>
        (\A w \in Threads : apply_value[w] = apply_done[w])

\* C27: T stays below T_max + n_threads * episode_max_length, n_threads
\* being the number of threads that run.
C27_overshoot_bounded ==
    budget_T < T_max + Cardinality(BudgetThreads) * episode_max_length

\* The order of the statements of one iteration of run(), as pairs of
\* positions: sync, get_trajectory, train_op, load of T, store of T.
IterationOrder ==
    {<<"Syncing", "Collecting">>, <<"Collecting", "Training">>,
     <<"Training", "ReadT">>, <<"ReadT", "WriteT">>, <<"WriteT", "Idle">>}

\* C23: a worker inside an iteration moves only from the sync to the
\* collection, from there to train_op, which updates the shared variables
\* and increments global_step before T is touched, and then to the advance
\* of T, which ends the iteration; its local variables are those of its
\* sync from the sync until the iteration ends; it is at its sync only
\* when every iteration it started before has advanced T.
C23_iteration_order ==
    /\ [](\A w \in Threads :
            /\ (pc[w] = "Syncing") => (completed[w] = started[w] - 1)
            /\ (w \in MidIteration) => (completed[w] = started[w] - 1)
            /\ (pc[w] \in {"Syncing", "Collecting"}) => (pending[w] = {}))
    /\ [][\A w \in Threads :
            /\ (w \in MidIteration /\ pc'[w] # pc[w]) =>
                   (<<pc[w], pc'[w]>> \in IterationOrder
                       \/ (pc[w] = "Collecting" /\ pc'[w] = "Failed"))
            /\ (pc'[w] = "Syncing" /\ pc[w] # "Syncing") => (pc[w] = "GuardStop")
            /\ (pc[w] = "Syncing" /\ pc'[w] # "Syncing") =>
                   (local_vars'[w] = shared_vars)
            /\ (pc[w] \in {"Collecting", "Training", "ReadT", "WriteT"}) =>
                   (local_vars'[w] = local_vars[w])
            /\ (trajectory'[w] # trajectory[w]) =>
                   (pc[w] \in {"Collecting", "WriteT"})
            /\ (pc[w] = "Training" /\ pc'[w] = "ReadT") =>
                   (global_step' = global_step + 1 /\ T' = T)
            /\ (completed'[w] # completed[w]) =>
                   (pc[w] = "WriteT" /\ T' = T_read[w] + trajectory[w])
         ]_vars

\* C23 witness: a worker is at the sync of its second iteration, the first
\* having advanced T, while its peer is between train_op and the advance
\* of T with local variables that are older than the shared ones.
C23_witness ==
    \E w, o \in Threads :
        /\ pc[w] = "Syncing" /\ started[w] = 2 /\ completed[w] = 1
        /\ pc[o] = "WriteT" /\ local_vars[o] # shared_vars
        /\ T > 0

\* learn() has returned and every thread has ended at its loop guard.
AllDone == learn_pc = "returned" /\ \A w \in Threads : pc[w] = "Terminated"

\* C24: under fair scheduling, with calls of the environment that return,
\* every worker terminates and learn() returns in the end, and so they do
\* after any request of shutdown.
C24_training_terminates ==
    /\ <>AllDone
    /\ stop_requested ~> AllDone

\* C24 witness: learn() returned with every thread ended and no shutdown
\* requested, after an interleaving in which an addition to T was lost.
C24_witness ==
    /\ AllDone
    /\ ~stop_requested
    /\ T < steps_sum

\* C26: when learn() has returned, no shutdown was requested and no thread
\* failed, T is at least T_max.
C26_budget_reached ==
    (/\ learn_pc = "returned"
     /\ ~stop_requested
     /\ \A w \in Threads : pc[w] # "Failed") => (T >= T_max)

\* C26 witness: learn() returned without shutdown or failure, with T above
\* T_max.
C26_witness ==
    /\ learn_pc = "returned"
    /\ ~stop_requested
    /\ \A w \in Threads : pc[w] = "Terminated"
    /\ T > T_max

\* The terminal records among the first n of the memory.
Terminals(n) == {j \in 1 .. n : j <= Len(memory) /\ memory[j].terminal}

\* C28: when get_steps returns, with stop_at_trajectory_end the memory
\* ends with its only terminal record or has n_steps records, none of the
\* first n_steps - 1 terminal; without it the memory has exactly n_steps
\* records; either way the environment was reset once for each terminal
\* record.
C28_get_steps_stops_or_fills ==
    (Returned("get_steps")) =>
        /\ IF stop_at_trajectory_end
           THEN \/ /\ memory # <<>>
                   /\ Len(memory) <= n_steps
                   /\ Terminals(Len(memory)) = {Len(memory)}
                \/ /\ Len(memory) = n_steps
                   /\ Terminals(n_steps - 1) = {}
           ELSE Len(memory) = n_steps
        /\ h_resets = Cardinality(Terminals(Len(memory)))

\* C28 witness: the second call, made without stop_at_trajectory_end,
\* returned n_steps = 2 records, the first of them terminal.
C28_witness ==
    /\ Returned("get_steps")
    /\ calls = 2
    /\ ~stop_at_trajectory_end
    /\ n_steps = 2
    /\ Len(memory) = 2
    /\ memory[1].terminal
    /\ h_resets >= 1

\* C29: the counters of the EnvRunner are those of the episode under way:
\* episode_steps is the number of steps since the last reset of the
\* environment, episode_reward the sum of their rewards and n_episodes the
\* number of episodes that ended, with or without a summary writer.
C29_episode_counters ==
    /\ episode_steps = h_steps
    /\ episode_reward = h_reward
    /\ n_episodes = h_episodes

====
